---- MODULE Spec2Model ----
(***************************************************************************)
(* The non-transitive dice game of src/game.js: the Game orchestrator     *)
(* (determineFirstMove, play, fairRoll, promptUser, showHelp), the        *)
(* commitment primitives of FairRandomGenerator and the matrix of         *)
(* ProbabilityCalculator.                                                 *)
(*                                                                         *)
(* One action is one resumption of the async control flow: everything the *)
(* code does between two reads of a line from stdin.  Recursive           *)
(* re-invocations (`return this.play()`, `return this.fairRoll(..)`) are  *)
(* tail calls, so the pending frame is the only live one.                 *)
(***************************************************************************)
EXTENDS Integers, Sequences, FiniteSets, TLC

VARIABLES
  dice,            \* this.dice: the dice of the session (sequence of face lists)
  pc,              \* where the control flow waits
  currentPlayer,   \* this.currentPlayer: "null", "user" or "computer"
  key,             \* local `key` of the pending exchange (0: none pending)
  computerNumber,  \* local computerChoice / computerNumber (-1: none pending)
  hmac,            \* local `hmac` of the pending exchange (<<>>: none pending)
  max,             \* modulus of the pending exchange (2 for the first move)
  userDice,        \* local userDice of play(), as an index of this.dice (-1: undefined)
  computerDice,    \* local computerDice of play(), as an index of this.dice (-1: undefined)
  availableDice,   \* local availableDice of play(): indices of this.dice on offer
  userRoll,        \* local userRoll of play() (-1: not yet computed)
  computerRoll,    \* local computerRoll of play() (-1: not yet computed)
  outcome,         \* the line printed by the comparison ("none" before it)
  nextKey,         \* keys handed out so far + 1 (each generateKey() is a fresh value)
  lastInput,       \* the trimmed line most recently read from stdin
  lastDigest,      \* console: the digest most recently displayed
  shown,           \* console: every digest displayed so far
  answered,        \* keys of the exchanges whose prompt has returned a line to its caller
  reveals,         \* console: every (key, number) disclosed, with the digest then on screen
  discarded,       \* keys of the commitments abandoned by a retry
  results,         \* every fair-number result computed by fairRoll
  shownMatrix      \* console: the help table most recently displayed (<<>>: none)

vars == <<dice, pc, currentPlayer, key, computerNumber, hmac, max, userDice,
          computerDice, availableDice, userRoll, computerRoll, outcome, nextKey,
          lastInput, lastDigest, shown, answered, reveals, discarded, results,
          shownMatrix>>

----------------------------------------------------------------------------
(* Bounds and inputs *)

\* Number of keys generateKey() may hand out in one run (3 are needed without retry).
MaxKeys == 4

\* main(): fewer than this many dice is a startup error.
MinDice == 3

\* Dice configurations main() accepts (>= 3 dice, every die >= 1 integer face).
DiceConfigs ==
  { << <<1, 2, 3>>, <<2, 3>>, <<3, 1>> >>,
    << <<1, 2>>, <<1, 2>>, <<3>> >>,
    << <<2>>, <<1, 3>>, <<2, 2>>, <<1>> >> }

\* Lines the user may type (after trim()).
Inputs == {"X", "?", "x", "-1", "0", "1", "2", "3", "1abc"}

----------------------------------------------------------------------------
(* Values *)

NaN == [nan |-> TRUE, v |-> 0]
Num(n) == [nan |-> FALSE, v |-> n]

\* parseInt(s, 10) on the lines of Inputs: leading integer prefix, else NaN.
parseInt(s) ==
  CASE s = "-1"   -> Num(-1)
    [] s = "0"    -> Num(0)
    [] s = "1"    -> Num(1)
    [] s = "2"    -> Num(2)
    [] s = "3"    -> Num(3)
    [] s = "1abc" -> Num(1)
    [] OTHER      -> NaN

\* Number.prototype.toString() of a small non-negative integer.
toString(n) ==
  CASE n = 0 -> "0" [] n = 1 -> "1" [] n = 2 -> "2" [] n = 3 -> "3"
    [] n = 4 -> "4" [] n = 5 -> "5" [] n = 6 -> "6" [] n = 7 -> "7"
    [] n = 8 -> "8" [] n = 9 -> "9"

\* JavaScript a % m on integers: the result has the sign of the dividend.
JsRem(a, m) == IF a >= 0 THEN a % m ELSE -((-a) % m)

\* FairRandomGenerator.calculateHMAC: a keyed hash is modelled as the term
\* (key, message text); equal digests mean equal key and equal message.
calculateHMAC(k, message) == <<k, toString(message)>>

\* Dice.length
DiceLength(i) == Len(dice[i + 1])

\* Dice.values[r]
DiceValue(i, r) == dice[i + 1][r + 1]

\* The range crypto.randomInt(0, m) draws from.
generateRandomNumber(m) == 0 .. (m - 1)

----------------------------------------------------------------------------
(* ProbabilityCalculator *)

\* (WinsGE: ties counted as wins.  WinsLT: the comparison turned round.)
WinsGE(d, i, j) ==
  Cardinality({ p \in (1 .. Len(d[i])) \X (1 .. Len(d[j])) : d[i][p[1]] >= d[j][p[2]] })
WinsLT(d, i, j) ==
  Cardinality({ p \in (1 .. Len(d[i])) \X (1 .. Len(d[j])) : d[i][p[1]] < d[j][p[2]] })
\* The inner two loops: pairs (a of dice[i], b of dice[j]) with a > b.
Wins(d, i, j) ==
  Cardinality({ p \in (1 .. Len(d[i])) \X (1 .. Len(d[j])) : d[i][p[1]] > d[j][p[2]] })

\* ((wins / (n * m)) * 100).toFixed(2), in hundredths of a percent.
toFixed2(wins, nm) == (2 * wins * 10000 + nm) \div (2 * nm)

\* (calculateProbabilitiesSq: the divisor taken as dice[i].length squared.)
calculateProbabilitiesSq(d) ==
  [ i \in 1 .. Len(d) |->
    [ j \in 1 .. Len(d) |->
      IF i = j THEN [dash |-> TRUE, hundredths |-> 0]
      ELSE [dash |-> FALSE,
            hundredths |-> toFixed2(Wins(d, i, j), Len(d[i]) * Len(d[i]))] ] ]
\* ProbabilityCalculator.calculateProbabilities: '-' on the diagonal, the
\* percentage elsewhere.
calculateProbabilities(d) ==
  [ i \in 1 .. Len(d) |->
    [ j \in 1 .. Len(d) |->
      IF i = j THEN [dash |-> TRUE, hundredths |-> 0]
      ELSE [dash |-> FALSE,
            hundredths |-> toFixed2(Wins(d, i, j), Len(d[i]) * Len(d[j]))] ] ]

----------------------------------------------------------------------------
(* Pure pieces of Game *)

\* this.dice.filter((_, i) => i !== excl), as indices of this.dice.
filterAll(excl) == [ i \in 1 .. Len(dice) |-> i - 1 ]
filter(excl) == SelectSeq([ i \in 1 .. Len(dice) |-> i - 1 ], LAMBDA i : i # excl)

\* determineFirstMove: (computerChoice + parseInt(userChoice)) % 2
firstMoveResult(cc, inp) ==
  IF parseInt(inp).nan THEN NaN ELSE Num(JsRem(cc + parseInt(inp).v, 2))

\* (firstMoverOne: the user moves first on result 1.)
firstMoverOne(r) == IF r = Num(1) THEN "user" ELSE "computer"
\* determineFirstMove: result === 0 ? 'user' : 'computer'
firstMover(r) == IF r = Num(0) THEN "user" ELSE "computer"

\* play / fairRoll: isNaN(index) || index < 0 || index >= bound
invalidIndex(inp, bound) ==
  parseInt(inp).nan \/ parseInt(inp).v < 0 \/ parseInt(inp).v >= bound

\* fairRoll: (computerNumber + number) % max
fairRollResultNoMod(cn, number, m) == cn + number
fairRollResult(cn, number, m) == JsRem(cn + number, m)

\* play: the comparison of the two rolled faces.
compareGE(uf, cf) ==
  IF uf >= cf THEN "You win!" ELSE IF uf < cf THEN "I win!" ELSE "It's a tie!"
compare(uf, cf) ==
  IF uf > cf THEN "You win!" ELSE IF uf < cf THEN "I win!" ELSE "It's a tie!"

\* The disclosure line of fairRoll: `My number is ${computerNumber} (KEY=${key}).`
rollRevealResult(k, cn, r, seen) == [key |-> k, secret |-> r, seen |-> seen]
rollReveal(k, cn, r, seen) == [key |-> k, secret |-> cn, seen |-> seen]

\* The disclosure line of determineFirstMove: `My selection: ${computerChoice} (KEY=${key}).`
firstMoveReveal(k, cc, seen) == [key |-> k, secret |-> cc, seen |-> seen]

Prompts == {"firstMove", "select", "rollUser", "rollComputer"}

\* The bound the dice-selection prompt validates against.
selectBound == IF currentPlayer = "user" THEN Len(dice) ELSE Len(availableDice)

----------------------------------------------------------------------------
(* Fragments of the control flow *)

\* Start of a fairness exchange over modulus m with the drawn number n:
\* generateKey, generateRandomNumber, calculateHMAC, and the digest line.
\* rv is what the console has disclosed when the exchange starts.
\* (beginExchangeLeak: the key and number printed together with the digest.
\* beginExchangeCached: the key of the pending exchange kept for the next one.)
beginExchangeLeak(m, n, rv) ==
  /\ nextKey <= MaxKeys
  /\ key' = nextKey
  /\ nextKey' = nextKey + 1
  /\ computerNumber' = n
  /\ max' = m
  /\ hmac' = calculateHMAC(nextKey, n)
  /\ lastDigest' = calculateHMAC(nextKey, n)
  /\ shown' = shown \cup {calculateHMAC(nextKey, n)}
  /\ reveals' = rv \cup {[key |-> nextKey, secret |-> n,
                          seen |-> calculateHMAC(nextKey, n)]}
beginExchangeCached(m, n, rv) ==
  /\ nextKey <= MaxKeys
  /\ key' = IF key # 0 THEN key ELSE nextKey
  /\ nextKey' = nextKey + 1
  /\ computerNumber' = n
  /\ max' = m
  /\ hmac' = calculateHMAC(key', n)
  /\ lastDigest' = calculateHMAC(key', n)
  /\ shown' = shown \cup {calculateHMAC(key', n)}
  /\ reveals' = rv
beginExchange(m, n, rv) ==
  /\ nextKey <= MaxKeys
  /\ key' = nextKey
  /\ nextKey' = nextKey + 1
  /\ computerNumber' = n
  /\ max' = m
  /\ hmac' = calculateHMAC(nextKey, n)
  /\ lastDigest' = calculateHMAC(nextKey, n)
  /\ shown' = shown \cup {calculateHMAC(nextKey, n)}
  /\ reveals' = rv

\* The locals of an exchange go out of scope when it returns.
endExchange ==
  /\ key' = 0
  /\ computerNumber' = -1
  /\ max' = 0
  /\ hmac' = <<>>
  /\ UNCHANGED <<nextKey, lastDigest, shown>>

\* Entry of play(): `let computerDice, userDice` and determineFirstMove up to
\* its prompt.
playEntry ==
  /\ userDice' = -1
  /\ computerDice' = -1
  /\ availableDice' = <<>>
  /\ pc' = "firstMove"
  /\ \E n \in generateRandomNumber(2) : beginExchange(2, n, reveals)

\* Entry of fairRoll(max, player) up to its prompt.
fairRollEntry(m, rv) ==
  \E n \in generateRandomNumber(m) : beginExchange(m, n, rv)

----------------------------------------------------------------------------
(* Initial state: main() has parsed the dice and constructed the Game. *)

Init ==
  /\ dice \in DiceConfigs
  /\ Len(dice) >= MinDice
  /\ pc = "main"
  /\ currentPlayer = "null"
  /\ key = 0
  /\ computerNumber = -1
  /\ hmac = <<>>
  /\ max = 0
  /\ userDice = -1
  /\ computerDice = -1
  /\ availableDice = <<>>
  /\ userRoll = -1
  /\ computerRoll = -1
  /\ outcome = "none"
  /\ nextKey = 1
  /\ lastInput = "none"
  /\ lastDigest = <<>>
  /\ shown = {}
  /\ answered = {}
  /\ reveals = {}
  /\ discarded = {}
  /\ results = {}
  /\ shownMatrix = <<>>

----------------------------------------------------------------------------
(* Actions *)

\* main() calls game.play(): runs to the first-move prompt.
play ==
  /\ pc = "main"
  /\ playEntry
  /\ UNCHANGED <<dice, currentPlayer, userRoll, computerRoll, outcome, lastInput,
                 answered, discarded, results, shownMatrix>>

\* showHelp(): the matrix of the session's full die set is displayed.
showHelp == shownMatrix' = calculateProbabilities(dice)

\* promptUser reads '?': showHelp, then the same prompt again; the caller is
\* not resumed.
\* (promptUserHelpRestart: '?' handed to the caller, whose '?' branch shows
\* the help and re-invokes itself.)
promptUserHelpRestart ==
  /\ pc \in Prompts
  /\ lastInput' = "?"
  /\ showHelp
  /\ IF pc \in {"rollUser", "rollComputer"}
       THEN /\ fairRollEntry(max, reveals)
            /\ UNCHANGED <<pc, userDice, computerDice, availableDice>>
       ELSE playEntry
  /\ UNCHANGED <<dice, currentPlayer, userRoll, computerRoll, outcome,
                 answered, discarded, results>>
promptUserHelp ==
  /\ pc \in Prompts
  /\ lastInput' = "?"
  /\ showHelp
  /\ UNCHANGED <<dice, pc, currentPlayer, key, computerNumber, hmac, max, userDice,
                 computerDice, availableDice, userRoll, computerRoll, outcome,
                 nextKey, lastDigest, shown, answered, reveals, discarded, results>>

\* 'X' at any prompt: process.exit(0).
\* (exitFallsThrough: the exit delayed until after the reveal line.)
exitFallsThrough ==
  /\ pc \in Prompts
  /\ lastInput' = "X"
  /\ pc' = "exited"
  /\ answered' = IF key # 0 THEN answered \cup {key} ELSE answered
  /\ reveals' = IF key # 0
                  THEN reveals \cup {[key |-> key, secret |-> computerNumber,
                                      seen |-> lastDigest]}
                  ELSE reveals
  /\ UNCHANGED <<dice, currentPlayer, key, computerNumber, hmac, max, userDice,
                 computerDice, availableDice, userRoll, computerRoll, outcome,
                 nextKey, lastDigest, shown, discarded, results, shownMatrix>>
exit ==
  /\ pc \in Prompts
  /\ lastInput' = "X"
  /\ pc' = "exited"
  /\ answered' = IF key # 0 THEN answered \cup {key} ELSE answered
  /\ UNCHANGED <<dice, currentPlayer, key, computerNumber, hmac, max, userDice,
                 computerDice, availableDice, userRoll, computerRoll, outcome,
                 nextKey, lastDigest, shown, reveals, discarded, results,
                 shownMatrix>>

\* (determineFirstMoveNoDraw: the computer's first pick left out, the whole
\* pool offered to the user.)
determineFirstMoveNoDraw(inp) ==
  /\ pc = "firstMove"
  /\ inp \notin {"X", "?"}
  /\ lastInput' = inp
  /\ answered' = answered \cup {key}
  /\ reveals' = reveals \cup {firstMoveReveal(key, computerNumber, lastDigest)}
  /\ currentPlayer' = firstMover(firstMoveResult(computerNumber, inp))
  /\ endExchange
  /\ pc' = "select"
  /\ IF currentPlayer' = "user"
       THEN UNCHANGED <<computerDice, availableDice>>
       ELSE /\ computerDice' = computerDice
            /\ availableDice' = [ i \in 1 .. Len(dice) |-> i - 1 ]
  /\ UNCHANGED <<dice, userDice, userRoll, computerRoll, outcome, discarded,
                 results, shownMatrix>>
\* determineFirstMove resumed with any other line: the reveal, the result,
\* this.currentPlayer; then play() up to the dice-selection prompt (when the
\* computer moves first, after drawing and announcing its die).
determineFirstMove(inp) ==
  /\ pc = "firstMove"
  /\ inp \notin {"X", "?"}
  /\ lastInput' = inp
  /\ answered' = answered \cup {key}
  /\ reveals' = reveals \cup {firstMoveReveal(key, computerNumber, lastDigest)}
  /\ currentPlayer' = firstMover(firstMoveResult(computerNumber, inp))
  /\ endExchange
  /\ pc' = "select"
  /\ IF currentPlayer' = "user"
       THEN UNCHANGED <<computerDice, availableDice>>
       ELSE \E computerDiceIndex \in generateRandomNumber(Len(dice)) :
              /\ computerDice' = computerDiceIndex
              /\ availableDice' = filter(computerDiceIndex)
  /\ UNCHANGED <<dice, userDice, userRoll, computerRoll, outcome, discarded,
                 results, shownMatrix>>

\* Dice selection resumed with an invalid line: `return this.play()`.
selectInvalid(inp) ==
  /\ pc = "select"
  /\ inp \notin {"X", "?"}
  /\ invalidIndex(inp, selectBound)
  /\ lastInput' = inp
  /\ playEntry
  /\ UNCHANGED <<dice, currentPlayer, userRoll, computerRoll, outcome, answered,
                 discarded, results, shownMatrix>>

\* (selectValidRestart: `return this.play()` reached for a valid index too.)
selectValidRestart(inp) ==
  /\ pc = "select"
  /\ inp \notin {"X", "?"}
  /\ ~invalidIndex(inp, selectBound)
  /\ lastInput' = inp
  /\ playEntry
  /\ UNCHANGED <<dice, currentPlayer, userRoll, computerRoll, outcome, answered,
                 discarded, results, shownMatrix>>
\* Dice selection resumed with a valid index: both dice are assigned, then
\* fairRoll(userDice.length, 'your') up to its prompt.
selectValid(inp) ==
  /\ pc = "select"
  /\ inp \notin {"X", "?"}
  /\ ~invalidIndex(inp, selectBound)
  /\ lastInput' = inp
  /\ IF currentPlayer = "user"
       THEN /\ userDice' = parseInt(inp).v
            /\ availableDice' = filter(parseInt(inp).v)
            /\ \E computerDiceIndex \in generateRandomNumber(Len(availableDice')) :
                 computerDice' = availableDice'[computerDiceIndex + 1]
       ELSE /\ userDice' = availableDice[parseInt(inp).v + 1]
            /\ UNCHANGED <<computerDice, availableDice>>
  /\ fairRollEntry(DiceLength(userDice'), reveals)
  /\ pc' = "rollUser"
  /\ UNCHANGED <<dice, currentPlayer, userRoll, computerRoll, outcome, answered,
                 discarded, results, shownMatrix>>

\* fairRoll resumed with an invalid line: `return this.fairRoll(max, player)`.
\* (fairRollInvalidKeep: the same prompt again with the commitment kept.)
fairRollInvalidKeep(inp) ==
  /\ pc \in {"rollUser", "rollComputer"}
  /\ inp \notin {"X", "?"}
  /\ invalidIndex(inp, max)
  /\ lastInput' = inp
  /\ answered' = answered \cup {key}
  /\ UNCHANGED <<dice, pc, currentPlayer, key, computerNumber, hmac, max, userDice,
                 computerDice, availableDice, userRoll, computerRoll, outcome,
                 nextKey, lastDigest, shown, reveals, discarded, results,
                 shownMatrix>>
fairRollInvalid(inp) ==
  /\ pc \in {"rollUser", "rollComputer"}
  /\ inp \notin {"X", "?"}
  /\ invalidIndex(inp, max)
  /\ lastInput' = inp
  /\ answered' = answered \cup {key}
  /\ discarded' = discarded \cup {key}
  /\ fairRollEntry(max, reveals)
  /\ UNCHANGED <<dice, pc, currentPlayer, userDice, computerDice, availableDice,
                 userRoll, computerRoll, outcome, results, shownMatrix>>

\* The record of one computed fair number.
rollRecord(side, number) ==
  [side |-> side, key |-> key, secret |-> computerNumber, number |-> number,
   max |-> max, result |-> fairRollResult(computerNumber, number, max)]

\* fairRoll(userDice.length, 'your') resumed with a valid number: the result
\* and the reveal; then fairRoll(computerDice.length, 'my') up to its prompt.
fairRollUser(inp) ==
  /\ pc = "rollUser"
  /\ inp \notin {"X", "?"}
  /\ ~invalidIndex(inp, max)
  /\ lastInput' = inp
  /\ answered' = answered \cup {key}
  /\ results' = results \cup {rollRecord("user", parseInt(inp).v)}
  /\ userRoll' = fairRollResult(computerNumber, parseInt(inp).v, max)
  /\ fairRollEntry(DiceLength(computerDice),
                   reveals \cup {rollReveal(key, computerNumber, userRoll', lastDigest)})
  /\ pc' = "rollComputer"
  /\ UNCHANGED <<dice, currentPlayer, userDice, computerDice, availableDice,
                 computerRoll, outcome, discarded, shownMatrix>>

\* (fairRollComputerReplay: after the comparison the game is started again.)
fairRollComputerReplay(inp) ==
  /\ pc = "rollComputer"
  /\ inp \notin {"X", "?"}
  /\ ~invalidIndex(inp, max)
  /\ lastInput' = inp
  /\ answered' = answered \cup {key}
  /\ results' = results \cup {rollRecord("computer", parseInt(inp).v)}
  /\ computerRoll' = fairRollResult(computerNumber, parseInt(inp).v, max)
  /\ reveals' = reveals \cup {rollReveal(key, computerNumber, computerRoll', lastDigest)}
  /\ endExchange
  /\ outcome' = compare(DiceValue(userDice, userRoll),
                        DiceValue(computerDice, computerRoll'))
  /\ pc' = "main"
  /\ UNCHANGED <<dice, currentPlayer, userDice, computerDice, availableDice,
                 userRoll, discarded, shownMatrix>>
\* fairRoll(computerDice.length, 'my') resumed with a valid number: the
\* result and the reveal; then the two roll lines and the comparison.
fairRollComputer(inp) ==
  /\ pc = "rollComputer"
  /\ inp \notin {"X", "?"}
  /\ ~invalidIndex(inp, max)
  /\ lastInput' = inp
  /\ answered' = answered \cup {key}
  /\ results' = results \cup {rollRecord("computer", parseInt(inp).v)}
  /\ computerRoll' = fairRollResult(computerNumber, parseInt(inp).v, max)
  /\ reveals' = reveals \cup {rollReveal(key, computerNumber, computerRoll', lastDigest)}
  /\ endExchange
  /\ outcome' = compare(DiceValue(userDice, userRoll),
                        DiceValue(computerDice, computerRoll'))
  /\ pc' = "done"
  /\ UNCHANGED <<dice, currentPlayer, userDice, computerDice, availableDice,
                 userRoll, discarded, shownMatrix>>

Next ==
  \/ play
  \/ promptUserHelp
  \/ exit
  \/ \E inp \in Inputs : determineFirstMove(inp)
  \/ \E inp \in Inputs : selectInvalid(inp)
  \/ \E inp \in Inputs : selectValid(inp)
  \/ \E inp \in Inputs : fairRollInvalid(inp)
  \/ \E inp \in Inputs : fairRollUser(inp)
  \/ \E inp \in Inputs : fairRollComputer(inp)

Spec == Init /\ [][Next]_vars

----------------------------------------------------------------------------
(* Properties *)

RollPrompts == {"rollUser", "rollComputer"}

\* An exchange is pending: its prompt is waiting for the user's line.
Pending == pc \in {"firstMove", "rollUser", "rollComputer"}

\* The step reads a line other than exit and help.
ReadsValue == lastInput' \notin {"X", "?"}

\* C1: in every fairness exchange the digest is on the console before the
\* user's line for that exchange is read, and the key and number of an
\* exchange are disclosed only once its prompt has returned the user's line.
C1_DigestFirstRevealLast ==
  /\ \A r \in reveals : r.key \in answered
  /\ \A k \in answered : \E h \in shown : h[1] = k
  /\ Pending => /\ hmac \in shown
                /\ hmac = lastDigest
                /\ key \notin answered
                /\ \A r \in reveals : r.key # key

\* C1 witness: the user-roll exchange has been answered and disclosed, and
\* the computer-roll exchange waits with only its digest shown.
C1_Witness ==
  /\ pc = "rollComputer"
  /\ \E r \in reveals : r.key \in answered /\ r.key # key /\ r.seen # lastDigest

\* C2: every disclosed (key, number) is the pair from which the digest that
\* was on the console at that moment was computed.
C2_RevealMatchesDigest ==
  \A r \in reveals : r.seen = calculateHMAC(r.key, r.secret)

\* C2 witness: after a help request and a retried roll, the retry's
\* commitment has been disclosed.
C2_Witness ==
  /\ shownMatrix # <<>>
  /\ \E k \in discarded : \E r \in reveals : r.key > k

\* Lines the first-move prompt should reject: non-numeric or outside [0, 2).
FirstMoveInvalid == { inp \in Inputs \ {"X", "?"} : invalidIndex(inp, 2) }

\* C3 (as claimed): a rejected line at the first-move prompt leaves
\* this.currentPlayer alone and the first-move prompt is asked again.
C3_InvalidFirstMoveReprompts ==
  [][ (pc = "firstMove" /\ lastInput' \in FirstMoveInvalid)
        => (pc' = "firstMove" /\ currentPlayer' = currentPlayer) ]_vars

\* C4 (as claimed): an invalid line at the dice-selection prompt asks the
\* dice selection again and leaves the first mover, the first-move
\* disclosure and the computer's announced die alone.
C4_InvalidSelectionKeepsState ==
  [][ (pc = "select" /\ ReadsValue /\ invalidIndex(lastInput', selectBound))
        => /\ pc' = "select"
           /\ currentPlayer' = currentPlayer
           /\ computerDice' = computerDice
           /\ reveals' = reveals
           /\ lastDigest' = lastDigest ]_vars

\* C5: a help request at any prompt displays the matrix of all the session's
\* dice and leaves the prompt, the pending commitment, the first mover, the
\* dice and the roll results as they were.
C5_HelpKeepsState ==
  [][ lastInput' = "?"
        => /\ shownMatrix' = calculateProbabilities(dice)
           /\ Len(shownMatrix') = Len(dice)
           /\ UNCHANGED <<pc, key, computerNumber, hmac, max, lastDigest, shown,
                          nextKey, currentPlayer, userDice, computerDice,
                          availableDice, userRoll, computerRoll, reveals,
                          results, outcome>> ]_vars

\* C5 witness: help was served at the computer-roll prompt, with the user's
\* roll already made.
C5_Witness ==
  /\ lastInput = "?"
  /\ pc = "rollComputer"
  /\ userRoll # -1
  /\ shownMatrix = calculateProbabilities(dice)

\* C6: an invalid line at a roll prompt abandons the pending commitment and
\* issues a new key, number and digest for the same prompt; an abandoned
\* commitment is never disclosed and never enters a roll result.
C6_RetryRegenerates ==
  /\ [](\A k \in discarded : /\ key # k
                             /\ \A r \in reveals : r.key # k
                             /\ \A r \in results : r.key # k)
  /\ [][ (pc \in RollPrompts /\ ReadsValue /\ invalidIndex(lastInput', max))
           => /\ pc' = pc
              /\ max' = max
              /\ key \in discarded'
              /\ key' # key
              /\ \A h \in shown : h[1] # key'
              /\ computerNumber' \in generateRandomNumber(max)
              /\ hmac' = calculateHMAC(key', computerNumber')
              /\ hmac' \notin shown
              /\ lastDigest' = hmac' ]_vars

\* C6 witness: a roll was retried and the game still reached the comparison.
C6_Witness == discarded # {} /\ pc = "done"

\* C7: two assigned dice are different entries of this.dice, and the pool
\* offered to the user after the computer's pick does not hold that pick.
C7_DiceExclusive ==
  /\ (userDice # -1 /\ computerDice # -1) => userDice # computerDice
  /\ \A i \in 1 .. Len(availableDice) :
       computerDice # -1 /\ userDice = -1 => availableDice[i] # computerDice

\* C7 witness: after a restarted selection the computer moved first and both
\* dice are assigned, with equal face lists.
C7_Witness ==
  /\ currentPlayer = "computer"
  /\ userDice # -1 /\ computerDice # -1
  /\ nextKey >= 4
  /\ dice[userDice + 1] = dice[computerDice + 1]

\* The die a side rolls.
DieOf(side) == IF side = "user" THEN userDice ELSE computerDice

\* C8: each roll uses the number of faces of the rolled side's die as its
\* modulus, its result is (number + user's number) mod that modulus, and the
\* result is an index of that die; modulus 6, 4 and 2 give 0.
C8_RollIndex ==
  /\ \A r \in results :
       /\ r.max = Len(dice[DieOf(r.side) + 1])
       /\ r.result = (r.secret + r.number) % r.max
       /\ r.result \in 0 .. (Len(dice[DieOf(r.side) + 1]) - 1)
  /\ userRoll # -1 =>
       \E r \in results : r.side = "user" /\ r.result = userRoll
  /\ computerRoll # -1 =>
       \E r \in results : r.side = "computer" /\ r.result = computerRoll
  /\ fairRollResult(4, 2, 6) = 0

\* C8 witness: a computer roll whose sum wrapped around the modulus.
C8_Witness ==
  \E r \in results : r.side = "computer" /\ r.secret + r.number >= r.max /\ r.max > 1

\* C9: the outcome is "You win!" exactly when the user's face is greater,
\* "I win!" exactly when it is smaller, and a tie exactly when they are equal.
C9_Outcome ==
  IF pc = "done"
    THEN LET uf == dice[userDice + 1][userRoll + 1]
             cf == dice[computerDice + 1][computerRoll + 1]
         IN /\ outcome \in {"You win!", "I win!", "It's a tie!"}
            /\ outcome = "You win!" <=> uf > cf
            /\ outcome = "I win!" <=> uf < cf
            /\ outcome = "It's a tie!" <=> uf = cf
    ELSE outcome = "none"

\* C9 witness: a finished game whose two faces are equal.
C9_Witness ==
  /\ pc = "done"
  /\ dice[userDice + 1][userRoll + 1] = dice[computerDice + 1][computerRoll + 1]
  /\ outcome = "It's a tie!"

\* C10: an exit line at any prompt ends the game in that step with nothing
\* disclosed, assigned, rolled or decided, and nothing happens afterwards.
C10_ExitEndsGame ==
  [][ /\ (pc # "exited" /\ lastInput' = "X")
           => /\ pc' = "exited"
              /\ UNCHANGED <<reveals, currentPlayer, userDice, computerDice,
                             userRoll, computerRoll, results, outcome, shown>>
      /\ pc = "exited" => FALSE ]_vars

\* C10 witness: the user left at the computer-roll prompt, whose commitment
\* stays undisclosed.
C10_Witness ==
  /\ pc = "exited"
  /\ lastInput = "X"
  /\ userRoll # -1
  /\ key # 0
  /\ \A r \in reveals : r.key # key

\* C11: the first-move exchange runs over modulus 2, and the user moves first
\* exactly when the line is a number and (computer's choice + that number)
\* mod 2 is 0; in every other case the computer moves first.
C11_FirstMover ==
  [][ (pc = "firstMove" /\ ReadsValue)
        => /\ max = 2
           /\ computerNumber \in {0, 1}
           /\ currentPlayer' =
                IF /\ ~parseInt(lastInput').nan
                   /\ (computerNumber + parseInt(lastInput').v) % 2 = 0
                  THEN "user" ELSE "computer" ]_vars

\* C11 witness: choice 1 and the line "1" made the user the first mover.
C11_Witness ==
  /\ pc = "select"
  /\ lastInput = "1"
  /\ currentPlayer = "user"
  /\ nextKey = 2
  /\ \E r \in reveals : r.key = 1 /\ r.secret = 1

\* The lines on which the pending exchange computes a result.
Accepted ==
  IF pc = "firstMove"
    THEN Inputs \ {"X", "?"}
    ELSE { inp \in Inputs \ {"X", "?"} : ~invalidIndex(inp, max) }

\* The result the pending exchange computes from the number s and the line inp.
Combined(s, inp) ==
  IF pc = "firstMove"
    THEN firstMoveResult(s, inp)
    ELSE Num(fairRollResult(s, parseInt(inp).v, max))

\* C12 (as claimed): for every line the pending exchange accepts, the results
\* over the max possible numbers of the computer are exactly 0 .. max-1, each
\* taken once.
C12_Bijection ==
  Pending =>
    \A inp \in Accepted :
      { Combined(s, inp) : s \in generateRandomNumber(max) }
        = { Num(v) : v \in 0 .. (max - 1) }

----------------------------------------------------------------------------
(* The help table over a wider range of dice: main() is started with the   *)
(* dice, play() runs to its first prompt and the user asks for help.       *)

\* Longest die and largest face value of the dice drawn below.
MaxLen == 3
MaxFace == 2

\* Every die of 1 .. MaxLen faces with values 1 .. MaxFace.
DieSet == UNION { [1 .. n -> 1 .. MaxFace] : n \in 1 .. MaxLen }

\* The third die of a drawn configuration.
ThirdDice == { <<1, 3, 3>>, <<2>> }

\* The dice of the usage example of main().
NonTransitive == << <<2, 2, 4, 4, 9, 9>>, <<1, 1, 6, 6, 8, 8>>, <<3, 3, 5, 5, 7, 7>> >>

MatrixDice ==
  { <<a, b, c>> : a \in DieSet, b \in DieSet, c \in ThirdDice } \cup {NonTransitive}

MatrixInit ==
  /\ dice \in MatrixDice
  /\ Len(dice) >= MinDice
  /\ pc = "main"
  /\ currentPlayer = "null"
  /\ key = 0
  /\ computerNumber = -1
  /\ hmac = <<>>
  /\ max = 0
  /\ userDice = -1
  /\ computerDice = -1
  /\ availableDice = <<>>
  /\ userRoll = -1
  /\ computerRoll = -1
  /\ outcome = "none"
  /\ nextKey = 1
  /\ lastInput = "none"
  /\ lastDigest = <<>>
  /\ shown = {}
  /\ answered = {}
  /\ reveals = {}
  /\ discarded = {}
  /\ results = {}
  /\ shownMatrix = <<>>

MatrixNext ==
  \/ play
  \/ promptUserHelp

MatrixSpec == MatrixInit /\ [][MatrixNext]_vars

RECURSIVE SumSeq(_)
SumSeq(s) == IF s = <<>> THEN 0 ELSE Head(s) + SumSeq(Tail(s))

\* Face by face: how often a face of x is strictly greater than a face of y.
PairsWon(x, y) ==
  SumSeq([ a \in 1 .. Len(x) |->
           SumSeq([ b \in 1 .. Len(y) |-> IF x[a] > y[b] THEN 1 ELSE 0 ]) ])

Abs(x) == IF x < 0 THEN -x ELSE x

\* h is wins / pairs as a percentage rounded to two decimals (in hundredths).
IsRoundedPercent(h, wins, pairs) == 2 * Abs(h * pairs - 10000 * wins) <= pairs

\* C13: the displayed matrix is n x n, '-' on the diagonal, and entry [i][j]
\* is the share of face pairs (a of dice[i], b of dice[j]) with a > b, as a
\* percentage rounded to two decimals; the dice are left as they were.
C13_Matrix ==
  /\ [](shownMatrix # <<>> =>
          /\ Len(shownMatrix) = Len(dice)
          /\ \A i \in 1 .. Len(dice) :
               /\ Len(shownMatrix[i]) = Len(dice)
               /\ \A j \in 1 .. Len(dice) :
                    IF i = j
                      THEN shownMatrix[i][j].dash
                      ELSE /\ ~shownMatrix[i][j].dash
                           /\ IsRoundedPercent(shownMatrix[i][j].hundredths,
                                               PairsWon(dice[i], dice[j]),
                                               Len(dice[i]) * Len(dice[j])))
  /\ [][dice' = dice]_vars

\* C13 witness: a displayed matrix for two dice that share a face, with an
\* entry that was rounded up.
C13_Witness ==
  /\ shownMatrix # <<>>
  /\ dice[1] = <<1, 2, 2>>
  /\ dice[2] = <<1, 1, 2>>
  /\ shownMatrix[1][2].hundredths = 4444
  /\ shownMatrix[3][1].hundredths = 6667

\* No face of x equals a face of y.
NoCommonFace(x, y) == \A a \in 1 .. Len(x) : \A b \in 1 .. Len(y) : x[a] # y[b]

\* C14: for two different dice without a common face, the win counts of each
\* over the other add up to the number of face pairs, and the two displayed
\* percentages add up to 100% within a hundredth.
C14_Complement ==
  shownMatrix # <<>> =>
    \A i \in 1 .. Len(dice) : \A j \in 1 .. Len(dice) :
      (i # j /\ NoCommonFace(dice[i], dice[j])) =>
        /\ Wins(dice, i, j) + Wins(dice, j, i) = Len(dice[i]) * Len(dice[j])
        /\ Abs(shownMatrix[i][j].hundredths + shownMatrix[j][i].hundredths - 10000) <= 1

\* C14 witness: dice of different lengths without a common face, displayed
\* as 33.33% and 66.67%.
C14_Witness ==
  /\ shownMatrix # <<>>
  /\ dice[1] = <<2, 2>>
  /\ dice[3] = <<1, 3, 3>>
  /\ shownMatrix[1][3].hundredths = 3333
  /\ shownMatrix[3][1].hundredths = 6667

\* Die i is displayed as winning against die j more often than not.
Beats(i, j) == shownMatrix[i][j].hundredths > 5000

\* C15: for the dice 2,2,4,4,9,9 / 1,1,6,6,8,8 / 3,3,5,5,7,7 the first wins
\* 20 of 36 pairs against the second, the second against the third and the
\* third against the first (55.56% each), and no die beats both others.
C15_NonTransitive ==
  (dice = NonTransitive /\ shownMatrix # <<>>) =>
    /\ \A e \in {<<1, 2>>, <<2, 3>>, <<3, 1>>} :
         /\ Wins(dice, e[1], e[2]) = 20
         /\ Len(dice[e[1]]) * Len(dice[e[2]]) = 36
         /\ shownMatrix[e[1]][e[2]].hundredths = 5556
         /\ Beats(e[1], e[2])
         /\ ~Beats(e[2], e[1])
    /\ \A i \in 1 .. 3 : \E j \in (1 .. 3) \ {i} : ~Beats(i, j)

\* C15 witness: the help table of these three dice is on the console.
C15_Witness ==
  /\ dice = NonTransitive
  /\ shownMatrix = calculateProbabilities(NonTransitive)
  /\ shownMatrix[2][1].hundredths = 4444

----------------------------------------------------------------------------
(* Properties of the game, continued *)

\* C16: every exchange displays a digest under a key of its own: no key is
\* behind two displayed digests, as many digests have been displayed as
\* exchanges were started, and the disclosed, abandoned and pending
\* commitments are different instances.
C16_FreshCommitments ==
  /\ \A h1 \in shown : \A h2 \in shown : h1[1] = h2[1] => h1 = h2
  /\ Cardinality(shown) = nextKey - 1
  /\ \A r1 \in reveals : \A r2 \in reveals : r1.key = r2.key => r1 = r2
  /\ \A r1 \in results : \A r2 \in results : r1.key = r2.key => r1 = r2
  /\ \A r \in results : \A v \in reveals : (v.key = r.key) => (v.secret = r.secret)
  /\ Pending => (key \notin discarded /\ \A r \in reveals : r.key # key)
  /\ Cardinality({ r.key : r \in reveals } \cup discarded
                   \cup (IF key # 0 THEN {key} ELSE {})) = nextKey - 1

\* C16 witness: a finished game with a retried roll: four commitments, three
\* disclosed and one abandoned.
C16_Witness ==
  /\ pc = "done"
  /\ Cardinality(shown) = 4
  /\ Cardinality(reveals) = 3
  /\ Cardinality(discarded) = 1

\* av lists, in order, every index of this.dice except x.
IsPoolWithout(av, x) ==
  /\ Len(av) = Len(dice) - 1
  /\ \A k \in 1 .. Len(av) : av[k] = IF k - 1 < x THEN k - 1 ELSE k

\* The step reads a valid index at the dice-selection prompt.
SelectsValid == pc = "select" /\ ReadsValue /\ ~invalidIndex(lastInput', selectBound)

\* C17: when the computer moves first its die is drawn from all the dice
\* before the user is asked, and the user is offered and picks from exactly
\* the other dice; when the user moves first the computer has no die until
\* the user's valid selection and then gets one of exactly the other dice.
C17_FirstMoverPicksFirst ==
  /\ []((pc = "select" /\ currentPlayer = "computer")
          => /\ computerDice \in 0 .. (Len(dice) - 1)
             /\ userDice = -1
             /\ IsPoolWithout(availableDice, computerDice))
  /\ []((pc = "select" /\ currentPlayer = "user")
          => (computerDice = -1 /\ userDice = -1))
  /\ [][ (SelectsValid /\ currentPlayer = "computer")
           => /\ computerDice' = computerDice
              /\ userDice' = availableDice[parseInt(lastInput').v + 1]
              /\ userDice' \in (0 .. (Len(dice) - 1)) \ {computerDice} ]_vars
  /\ [][ (SelectsValid /\ currentPlayer = "user")
           => /\ userDice' = parseInt(lastInput').v
              /\ userDice' \in 0 .. (Len(dice) - 1)
              /\ IsPoolWithout(availableDice', userDice')
              /\ \E k \in 1 .. Len(availableDice') : computerDice' = availableDice'[k] ]_vars

\* C17 witness: the computer moved first and drew the last die; the user then
\* picked the second entry of the remaining pool.
C17_Witness ==
  /\ pc = "rollUser"
  /\ currentPlayer = "computer"
  /\ computerDice = Len(dice) - 1
  /\ lastInput = "1"
  /\ userDice = 1

\* The orchestrator's states in their order (the comparison ends in "done").
Rank(p) ==
  CASE p = "main" -> 0
    [] p = "firstMove" -> 1
    [] p = "select" -> 2
    [] p = "rollUser" -> 3
    [] p = "rollComputer" -> 4
    [] p = "done" -> 5
    [] p = "exited" -> 6

\* C18 (as claimed): the orchestrator never goes back to an earlier state, the
\* computer-roll commitment exists only once the user's roll has its result,
\* and the comparison is made only with both roll results.
C18_ForwardOnly ==
  /\ [][Rank(pc') >= Rank(pc)]_vars
  /\ [](pc = "rollComputer" => userRoll # -1)
  /\ [](outcome # "none" => (userRoll # -1 /\ computerRoll # -1))

\* C19: a run produces at most one outcome, and once it is printed nothing is
\* prompted, committed or disclosed any more.
C19_OneOutcome ==
  /\ [][outcome = "none"]_vars
  /\ [](outcome # "none" => (pc = "done" /\ key = 0 /\ hmac = <<>>))
  /\ [](Cardinality({ r \in results : r.side = "computer" }) <= 1)

\* C19 witness: a game with a help request and a retried roll has printed its
\* outcome.
C19_Witness ==
  /\ outcome # "none"
  /\ shownMatrix # <<>>
  /\ discarded # {}

----------------------------------------------------------------------------
(* A user who never exits, makes finitely many invalid selections and      *)
(* always comes to type a valid line.                                      *)

\* An invalid dice selection made while the keys left still cover the
\* restarted first move and both rolls.
liveSelectInvalid(inp) ==
  /\ nextKey + 2 <= MaxKeys
  /\ selectInvalid(inp)

\* An invalid roll line typed while the keys left still cover the retry and
\* the rolls after it.
liveRollInvalid(inp) ==
  /\ nextKey + (IF pc = "rollUser" THEN 1 ELSE 0) <= MaxKeys
  /\ fairRollInvalid(inp)

\* A line on which the pending decision is taken.
validLine ==
  \/ \E inp \in Inputs : determineFirstMove(inp)
  \/ \E inp \in Inputs : selectValid(inp)
  \/ \E inp \in Inputs : fairRollUser(inp)
  \/ \E inp \in Inputs : fairRollComputer(inp)

LiveNext ==
  \/ play
  \/ promptUserHelp
  \/ \E inp \in Inputs : liveSelectInvalid(inp)
  \/ \E inp \in Inputs : liveRollInvalid(inp)
  \/ validLine

LiveSpec == Init /\ [][LiveNext]_vars /\ WF_vars(play) /\ WF_vars(validLine)

\* C20: when the user never exits and at each prompt comes to type a valid
\* line, the game reaches the comparison and prints an outcome.
C20_Terminates == <>(pc = "done" /\ outcome # "none")

\* C20 witness: the game finished after a help request and a restarted dice
\* selection (two first-move exchanges and both rolls disclosed).
C20_Witness ==
  /\ pc = "done"
  /\ outcome # "none"
  /\ shownMatrix # <<>>
  /\ discarded = {}
  /\ Cardinality(reveals) = 4

====
